---- MODULE Spec2Model ----
(***************************************************************************)
(* A model of the fuzzysearch HTTP API: the search service (a static,      *)
(* in-memory inventory indexed by Fuse.js) and the controller in front of  *)
(* it.  Strings are sequences of one-character strings, so that trim() and *)
(* the matcher work on their characters.                                   *)
(*                                                                         *)
(* Spec serves one request at a time, every endpoint with every parameter. *)
(* SpecConcurrent follows requests that reach an uninitialized service     *)
(* while another one is still loading the data file.  SpecRepeat follows a *)
(* client that sends a basic search again after other requests.            *)
(***************************************************************************)
EXTENDS Integers, Sequences, FiniteSets, TLC

VARIABLES dataFile, inventory, fuse, isInitialized, req, res, fuseCalls, sliced, crawl,
          pc, loads, seen, memo

vars == <<dataFile, inventory, fuse, isInitialized, req, res, fuseCalls, sliced, crawl,
          pc, loads, seen, memo>>

\* What a request in progress and its response are held in.
requestVars == <<req, res, fuseCalls, sliced, crawl>>
\* The requests in flight at once: where each one is, how many times
\* initialize() has installed the data, what each request read.
clientVars == <<pc, loads, seen>>

(***************************************************************************)
(* Encodings.  A value that may be missing is a sequence of at most one   *)
(* element: <<>> is null, undefined or NaN, <<v>> is the value v.  A       *)
(* string parameter that is absent is the empty string <<>>: the code only *)
(* ever tests such a parameter for truthiness.                            *)
(***************************************************************************)
None == <<>>
Some(v) == <<v>>

\* ------------------------------------------------------------------ bounds
\* Longest inventory the data file holds.
MaxRecords == 3
\* Largest page number a request carries.
MaxPage == 3
\* Largest in-range limit a request carries.
MaxLimitParam == 2
\* Requests in flight at once.
MaxClients == 2

\* ------------------------------------------------------- program constants
DefaultSearchLimit == 10
MaxSearchLimit == 100
\* Fuse options: threshold 0.3 (in hundredths), weights 0.6 and 0.4 (in tenths).
FuseThreshold == 30
MinMatchCharLength == 3
WeightBrand == 6
WeightDescription == 4

\* ----------------------------------------------------------------- strings
SPACE == " "

W_audi == <<"a", "u", "d", "i">>
W_Audi == <<"A", "u", "d", "i">>
W_audy == <<"a", "u", "d", "y">>
W_fiat == <<"f", "i", "a", "t">>
W_hose == <<"h", "o", "s", "e">>
W_new == <<"n", "e", "w">>
W_oem == <<"o", "e", "m">>

RECURSIVE TrimStart(_)
TrimStart(s) == IF s # <<>> /\ Head(s) = SPACE THEN TrimStart(Tail(s)) ELSE s

RECURSIVE TrimEnd(_)
TrimEnd(s) ==
    IF s # <<>> /\ s[Len(s)] = SPACE THEN TrimEnd(SubSeq(s, 1, Len(s) - 1)) ELSE s

\* String.prototype.trim
Trim(s) == TrimEnd(TrimStart(s))

ToLowerChar(c) == IF c = "A" THEN "a" ELSE c

\* The whitespace-separated tokens of a string.
RECURSIVE Tokens(_)
Tokens(s) ==
    LET t == TrimStart(s)
        n == IF \E i \in 1..Len(t) : t[i] = SPACE
             THEN (CHOOSE i \in 1..Len(t) :
                      t[i] = SPACE /\ \A j \in 1..(i - 1) : t[j] # SPACE) - 1
             ELSE Len(t)
    IN IF t = <<>> THEN <<>>
       ELSE <<SubSeq(t, 1, n)>> \o Tokens(SubSeq(t, n + 1, Len(t)))

\* ------------------------------------------------------------ the matcher
\* Fuse.js is not part of the repository: the matcher, the field scorer and
\* the ranker follow sections 4.1 to 4.3 of the specification, with the
\* options the service passes to the Fuse constructor.

Min(a, b) == IF a < b THEN a ELSE b
Max(a, b) == IF a > b THEN a ELSE b

\* Characters of token that differ from text at offset off (case-insensitive).
Mismatches(token, text, off) ==
    Cardinality({i \in 1..Len(token) :
                    ToLowerChar(token[i]) # ToLowerChar(text[off + i])})

\* Errors of the best-aligned substring of text; Len(token) when none fits.
BestErrors(token, text) ==
    LET offs == 0..(Len(text) - Len(token))
    IN IF offs = {} THEN Len(token)
       ELSE CHOOSE e \in 0..Len(token) :
               /\ \E off \in offs : Mismatches(token, text, off) = e
               /\ \A off \in offs : Mismatches(token, text, off) >= e

\* Cost of one token against a text, in hundredths: 0 is a perfect match.
\* The location penalty is zero: every text is shorter than the configured
\* distance of 100 characters (and the service sets ignoreLocation).
TokenCost(token, text) ==
    IF Len(token) < MinMatchCharLength THEN 100
    ELSE (BestErrors(token, text) * 100) \div Len(token)

RECURSIVE SumSeq(_)
SumSeq(s) == IF s = <<>> THEN 0 ELSE Head(s) + SumSeq(Tail(s))

TokenCosts(toks, text) == [i \in 1..Len(toks) |-> TokenCost(toks[i], text)]

MeanOrNone(costs) == IF costs = <<>> THEN None ELSE Some(SumSeq(costs) \div Len(costs))

\* match(query, text, config): None for no-match, else the cost. A query of
\* several tokens matches when at least one token clears the threshold, at
\* the average cost of the tokens that do.
Match(query, text, threshold) ==
    MeanOrNone(SelectSeq(TokenCosts(Tokens(query), text), LAMBDA c : c <= threshold))

\* scoreRecord: None for no-match, else the weighted mean of the matching
\* fields' costs, in units of 1/6000 (the weights' sums 4, 6, 10 divide 60).
WeightedMean(b, d) ==
    LET wb == IF b = None THEN 0 ELSE WeightBrand
        wd == IF d = None THEN 0 ELSE WeightDescription
        sb == IF b = None THEN 0 ELSE WeightBrand * b[1]
        sd == IF d = None THEN 0 ELSE WeightDescription * d[1]
    IN IF wb + wd = 0 THEN None ELSE Some((sb + sd) * (60 \div (wb + wd)))

ScoreRecord(query, record, threshold) ==
    WeightedMean(Match(query, record.marca_vehiculo, threshold),
                 Match(query, record.descripcion_corta, threshold))

\* x goes after every element whose score is not larger: a stable sort.
RECURSIVE InsertByScore(_, _)
InsertByScore(sorted, x) ==
    IF sorted = <<>> THEN <<x>>
    ELSE IF Head(sorted).score <= x.score
         THEN <<Head(sorted)>> \o InsertByScore(Tail(sorted), x)
         ELSE <<x>> \o sorted

\* rank: the matching records of docs, by ascending score, ties in store order.
\* A record scored s joins the ranking unless s is no-match.
AddScored(ranked, doc, refIndex, s) ==
    IF s = None THEN ranked
    ELSE InsertByScore(ranked, [item |-> doc, refIndex |-> refIndex, score |-> s[1]])

RECURSIVE RankFrom(_, _, _, _)
RankFrom(query, docs, threshold, i) ==
    IF i = 0 THEN <<>>
    ELSE AddScored(RankFrom(query, docs, threshold, i - 1), docs[i], i - 1,
                   ScoreRecord(query, docs[i], threshold))

Rank(query, docs, threshold) == RankFrom(query, docs, threshold, Len(docs))

\* Fuse.search(query, {limit}): the ranked matches, cut to limit when limit > -1.
Truncate(ranked, limit) ==
    IF limit > -1 THEN SubSeq(ranked, 1, Min(limit, Len(ranked))) ELSE ranked

FuseSearch(index, query, limit) ==
    Truncate(Rank(query, index.docs, index.threshold), limit)

\* ------------------------------------------------------------- JavaScript
\* Array.prototype.slice(start, end): negative indices count from the end.
JsSlice(s, start, end) ==
    LET len == Len(s)
        k   == IF start < 0 THEN Max(len + start, 0) ELSE Min(start, len)
        fin == IF end < 0 THEN Max(len + end, 0) ELSE Min(end, len)
    IN SubSeq(s, k + 1, fin)

\* Math.ceil(n / d) for integers n and d # 0.
CeilDiv(n, d) == IF d > 0 THEN -((-n) \div d) ELSE -(n \div (-d))

\* parseInt(x) || dflt, for x the parsed parameter: NaN and 0 are falsy.
OrDefault(x, dflt) == IF x = None \/ x = Some(0) THEN dflt ELSE x

\* !s for a string parameter: absent or empty.
Falsy(s) == s = <<>>

\* The UTF-16 code unit of a character of the model's strings.
CharCode(c) ==
    CASE c = " " -> 32 [] c = "A" -> 65 [] c = "a" -> 97 [] c = "d" -> 100
      [] c = "e" -> 101 [] c = "f" -> 102 [] c = "h" -> 104 [] c = "i" -> 105
      [] c = "m" -> 109 [] c = "n" -> 110 [] c = "o" -> 111 [] c = "s" -> 115
      [] c = "t" -> 116 [] c = "u" -> 117 [] c = "w" -> 119 [] c = "y" -> 121

\* a < b for strings: by code units, a proper prefix first.
StrLess(a, b) ==
    \E k \in 1..(Min(Len(a), Len(b)) + 1) :
        /\ \A j \in 1..(k - 1) : a[j] = b[j]
        /\ k <= Len(b)
        /\ (k <= Len(a) => CharCode(a[k]) < CharCode(b[k]))

RECURSIVE InsertSorted(_, _)
InsertSorted(sorted, x) ==
    IF sorted = <<>> THEN <<x>>
    ELSE IF StrLess(x, Head(sorted)) THEN <<x>> \o sorted
         ELSE <<Head(sorted)>> \o InsertSorted(Tail(sorted), x)

\* Array.prototype.sort() without a comparator, on strings.
RECURSIVE JsSort(_)
JsSort(s) == IF s = <<>> THEN <<>> ELSE InsertSorted(JsSort(Tail(s)), Head(s))

\* Array.prototype.reverse
RECURSIVE Reverse(_)
Reverse(s) == IF s = <<>> THEN <<>> ELSE Append(Reverse(Tail(s)), Head(s))

\* A Set keeps the first occurrence of a value, in insertion order.
AddDistinct(values, x) ==
    IF \E i \in 1..Len(values) : values[i] = x THEN values ELSE Append(values, x)

\* A spread that keeps every value: no Set in between.
SpreadAll(s) == s

\* [...new Set(s)]
RECURSIVE Distinct(_)
Distinct(s) ==
    IF s = <<>> THEN <<>>
    ELSE AddDistinct(Distinct(SubSeq(s, 1, Len(s) - 1)), s[Len(s)])

\* docs.map(item => item[field])
Pluck(docs, field) == [i \in 1..Len(docs) |-> docs[i][field]]

\* ------------------------------------------------------------ the service
\* The index new Fuse(this.inventory, fuseOptions) builds.
NewFuse(docs) == [docs |-> docs, threshold |-> FuseThreshold]

\* { ...result.item, score: result.score }
FormatResult(r) ==
    [producto_id       |-> r.item.producto_id,
     marca_vehiculo    |-> r.item.marca_vehiculo,
     descripcion_corta |-> r.item.descripcion_corta,
     condicion         |-> r.item.condicion,
     calidad_repuesto  |-> r.item.calidad_repuesto,
     anio_desde        |-> r.item.anio_desde,
     anio_hasta        |-> r.item.anio_hasta,
     score             |-> r.score]

FormatResults(rs) == [i \in 1..Len(rs) |-> FormatResult(rs[i])]

\* const { limit = DEFAULT, page = 1 } = options: None is undefined.
OptLimit(options) ==
    IF options.limit = None THEN DefaultSearchLimit ELSE options.limit[1]
OptPage(options) == IF options.page = None THEN 1 ELSE options.page[1]

ActualLimit(options) == Min(OptLimit(options), MaxSearchLimit)

\* The limit search() hands to fuse.search.
SearchCap(options) == ActualLimit(options) * OptPage(options)

\* A slice that starts one page late.
StartIndexOnePageLate(options) == OptPage(options) * ActualLimit(options)

StartIndex(options) == (OptPage(options) - 1) * ActualLimit(options)
EndIndex(options) == StartIndex(options) + ActualLimit(options)

\* What search() counts as total: the length of what fuse.search returned.
SearchTotal(results) == Len(results)

\* What search() does with the results of fuse.search. body is the value
\* returned; calls, slice and candidates record what the call did on the way.
SearchResult(results, query, options) ==
    [body |-> [success    |-> TRUE,
               results    |-> FormatResults(JsSlice(results, StartIndex(options),
                                                   EndIndex(options))),
               total      |-> SearchTotal(results),
               page       |-> OptPage(options),
               limit      |-> ActualLimit(options),
               totalPages |-> CeilDiv(Len(results), ActualLimit(options)),
               query      |-> query],
     calls      |-> <<[query |-> query, limit |-> SearchCap(options)]>>,
     slice      |-> <<StartIndex(options), EndIndex(options)>>,
     candidates |-> FormatResults(results)]

\* SearchService.search on an initialized service.
Search(index, query, options) ==
    SearchResult(FuseSearch(index, query, SearchCap(options)), query, options)

\* searchByBrand and searchByDescription add a fields option; search() reads
\* only limit and page of its options.
SearchByBrand(index, brand, options) ==
    Search(index, brand, [limit |-> options.limit, page |-> options.page,
                          fields |-> <<"marca_vehiculo">>])

SearchByDescription(index, description, options) ==
    Search(index, description, [limit |-> options.limit, page |-> options.page,
                                fields |-> <<"descripcion_corta">>])

\* The limit searchWithYearRange hands to fuse.search.
YearRangeCap(options) == ActualLimit(options) * OptPage(options) * 2

\* searchYear && !isNaN(searchYear), for a number searchYear
YearGiven(searchYear) == searchYear # 0

InYearRange(item, searchYear) ==
    searchYear >= item.anio_desde /\ searchYear <= item.anio_hasta

\* A year filter that hands the records in range back last first.
FilterByYearReversed(textResults, searchYear) ==
    IF YearGiven(searchYear)
    THEN Reverse(SelectSeq(textResults, LAMBDA r : InYearRange(r.item, searchYear)))
    ELSE textResults

\* Step 2 of searchWithYearRange.
FilterByYear(textResults, searchYear) ==
    IF YearGiven(searchYear)
    THEN SelectSeq(textResults, LAMBDA r : InYearRange(r.item, searchYear))
    ELSE textResults

\* Steps 3 and 4 of searchWithYearRange, and the value returned.
YearRangeResult(filteredResults, query, searchYear, options) ==
    [body |-> [success      |-> TRUE,
               results      |-> FormatResults(JsSlice(filteredResults,
                                                     StartIndex(options),
                                                     EndIndex(options))),
               total        |-> Len(filteredResults),
               page         |-> OptPage(options),
               limit        |-> ActualLimit(options),
               totalPages   |-> CeilDiv(Len(filteredResults), ActualLimit(options)),
               query        |-> query,
               searchYear   |-> IF searchYear = 0 THEN None ELSE Some(searchYear),
               yearFiltered |-> searchYear # 0],
     calls      |-> <<[query |-> query, limit |-> YearRangeCap(options)]>>,
     slice      |-> <<StartIndex(options), EndIndex(options)>>,
     candidates |-> FormatResults(filteredResults)]

SearchWithYearRange(index, query, searchYear, options) ==
    YearRangeResult(FilterByYear(FuseSearch(index, query, YearRangeCap(options)),
                                 searchYear),
                    query, searchYear, options)

\* find(item => item.producto_id = productId): an assignment for the
\* comparison, true of the first item whatever its id.
FindItemAssigning(docs, productId) ==
    IF docs # <<>> THEN Some([docs[1] EXCEPT !.producto_id = productId]) ELSE None

\* this.inventory.find(item => item.producto_id === productId): the first
\* such item, or None.
FindItem(docs, productId) ==
    IF \E i \in 1..Len(docs) : docs[i].producto_id = productId
    THEN Some(docs[CHOOSE i \in 1..Len(docs) :
                      /\ docs[i].producto_id = productId
                      /\ \A j \in 1..(i - 1) : docs[j].producto_id # productId])
    ELSE None

GetItemById(docs, productId) ==
    LET item == FindItem(docs, productId)
    IN IF item = None
       THEN [success |-> FALSE, message |-> "Item not found"]
       ELSE [success |-> TRUE, data |-> item[1]]

\* What getVehicleBrands returns, and this.inventory as the call leaves it:
\* sort() works in place, on the array spread from the Set.
BrandsResult(brands, docs) ==
    [body |-> [success |-> TRUE,
               data |-> [brands |-> JsSort(brands), total |-> Len(brands)]],
     inventory |-> docs]

\* A brand listing that orders this.inventory itself.
GetVehicleBrandsReversingStore(docs) ==
    BrandsResult(Distinct(Pluck(docs, "marca_vehiculo")), Reverse(docs))

GetVehicleBrands(docs) ==
    BrandsResult(Distinct(Pluck(docs, "marca_vehiculo")), docs)

\* What getSearchStats returns (but for lastUpdated, the time of the call),
\* and this.inventory as the call leaves it.
StatsResult(brands, conditions, qualities, docs) ==
    [body |-> [success |-> TRUE,
               data |-> [totalItems   |-> Len(docs),
                         uniqueBrands |-> Len(brands),
                         brands       |-> JsSort(brands),
                         conditions   |-> JsSort(conditions),
                         qualities    |-> JsSort(qualities)]],
     inventory |-> docs]

GetSearchStats(docs) ==
    StatsResult(Distinct(Pluck(docs, "marca_vehiculo")),
                Distinct(Pluck(docs, "condicion")),
                Distinct(Pluck(docs, "calidad_repuesto")),
                docs)

\* --------------------------------------------------------- the controller
\* What a handler did: whether it called the service, the HTTP answer, and
\* what the service call did (its fuse.search calls, the slice bounds it
\* used, the candidate sequence it sliced).
Reply(status, body) ==
    [invoked |-> FALSE, status |-> status, body |-> body,
     calls |-> <<>>, slice |-> <<>>, candidates |-> <<>>]

Json(out) ==
    [invoked |-> TRUE, status |-> 200, body |-> out.body,
     calls |-> out.calls, slice |-> out.slice, candidates |-> out.candidates]

BadRequest(message) == Reply(400, [success |-> FALSE, message |-> message])

\* The options object the handlers build from the query string.
Options(limit, page) ==
    [limit |-> OrDefault(limit, None), page |-> OrDefault(page, Some(1))]

\* The options of the basic search: threshold is parseFloat(threshold) ||
\* undefined, in hundredths.
SearchOptions(limit, page, threshold) ==
    [limit |-> OrDefault(limit, None), page |-> OrDefault(page, Some(1)),
     threshold |-> OrDefault(threshold, None)]

CtlSearch(index, q, limit, page, threshold) ==
    IF Falsy(q) \/ Trim(q) = <<>>
    THEN BadRequest("Search query is required")
    ELSE Json(Search(index, Trim(q), SearchOptions(limit, page, threshold)))

CtlSearchByBrand(index, brand, limit, page) ==
    IF Falsy(brand) \/ Trim(brand) = <<>>
    THEN BadRequest("Brand parameter is required")
    ELSE Json(SearchByBrand(index, Trim(brand), Options(limit, page)))

CtlSearchByDescription(index, description, limit, page) ==
    IF Falsy(description) \/ Trim(description) = <<>>
    THEN BadRequest("Description parameter is required")
    ELSE Json(SearchByDescription(index, Trim(description), Options(limit, page)))

\* let searchQuery = ''; if (q) searchQuery += q + ' '; ...
SearchQuery(q, brand, condition, quality) ==
    (IF Falsy(q) THEN <<>> ELSE q \o <<SPACE>>)
    \o (IF Falsy(brand) THEN <<>> ELSE brand \o <<SPACE>>)
    \o (IF Falsy(condition) THEN <<>> ELSE condition \o <<SPACE>>)
    \o (IF Falsy(quality) THEN <<>> ELSE quality \o <<SPACE>>)

\* The filter of advancedSearch; yearFrom and yearTo are None or a year.
AdvancedKeeps(item, yearFrom, yearTo) ==
    /\ ~(yearFrom # None /\ item.anio_desde < yearFrom[1])
    /\ ~(yearTo # None /\ item.anio_desde > yearTo[1])

\* result.data.results = filter(...); result.data.total = results.length
AdvancedFilter(out, yearFrom, yearTo) ==
    IF yearFrom # None \/ yearTo # None
    THEN LET kept == SelectSeq(out.body.results,
                               LAMBDA item : AdvancedKeeps(item, yearFrom, yearTo))
         IN [out EXCEPT !.body.results = kept, !.body.total = Len(kept)]
    ELSE out

CtlAdvancedSearch(index, q, brand, condition, quality, yearFrom, yearTo, limit, page) ==
    IF Falsy(q) /\ Falsy(brand) /\ Falsy(condition) /\ Falsy(quality)
    THEN BadRequest("At least one search parameter is required (q, brand, condition, or quality)")
    ELSE Json(AdvancedFilter(
                 Search(index, Trim(SearchQuery(q, brand, condition, quality)),
                        Options(limit, page)),
                 yearFrom, yearTo))

\* year is the parsed parameter: None when absent or not a number.
CtlSearchWithYearRange(index, q, year, limit, page) ==
    IF Falsy(q) \/ Trim(q) = <<>>
    THEN BadRequest("Search query is required")
    ELSE IF year = None
    THEN BadRequest("Valid year parameter is required")
    ELSE Json(SearchWithYearRange(index, Trim(q), year[1], Options(limit, page)))

\* The route /item/:productId always carries a product id.
CtlGetItemById(docs, productId) ==
    LET result == GetItemById(docs, productId)
        out    == [invoked |-> TRUE, status |-> 200, body |-> result,
                   calls |-> <<>>, slice |-> <<>>, candidates |-> <<>>]
    IN IF ~result.success THEN [out EXCEPT !.status = 404] ELSE out

\* getVehicleBrands and getSearchStats: res.json(result).
CtlAggregate(result) ==
    [invoked |-> TRUE, status |-> 200, body |-> result.body,
     calls |-> <<>>, slice |-> <<>>, candidates |-> <<>>]

\* errorHandler for the ENOENT of a missing data file.
ErrorResponse == [status |-> 404,
                  body |-> [success |-> FALSE, message |-> "Resource not found"]]

\* ------------------------------------------------------------- the inputs
\* The record shapes of the data file: an exact brand match for "audi" (in
\* another case), a near match, and a match in the description only; the
\* last one is the only one that does not match "hose".
Catalog ==
    { [marca_vehiculo |-> W_Audi, descripcion_corta |-> W_hose,
       condicion |-> W_new, calidad_repuesto |-> W_oem,
       anio_desde |-> 1, anio_hasta |-> 1],
      [marca_vehiculo |-> W_audy, descripcion_corta |-> W_hose,
       condicion |-> W_new, calidad_repuesto |-> W_new,
       anio_desde |-> 2, anio_hasta |-> 2],
      [marca_vehiculo |-> W_fiat, descripcion_corta |-> W_audi,
       condicion |-> W_oem, calidad_repuesto |-> W_oem,
       anio_desde |-> 1, anio_hasta |-> 2] }

\* The i-th record of the file has the product id i.
WithIds(shapes) ==
    [i \in 1..Len(shapes) |->
        [producto_id       |-> i,
         marca_vehiculo    |-> shapes[i].marca_vehiculo,
         descripcion_corta |-> shapes[i].descripcion_corta,
         condicion         |-> shapes[i].condicion,
         calidad_repuesto  |-> shapes[i].calidad_repuesto,
         anio_desde        |-> shapes[i].anio_desde,
         anio_hasta        |-> shapes[i].anio_hasta]]

Inventories ==
    UNION { {WithIds(shapes) : shapes \in [1..n -> Catalog]} : n \in 0..MaxRecords }

\* INVENTARIO_ACTUAL.json: missing, or holding an inventory.
DataFiles ==
    {[exists |-> TRUE, content |-> inv] : inv \in Inventories}
    \cup {[exists |-> FALSE, content |-> <<>>]}

\* Query strings: absent, blank, a word, a word after a space.
Queries == {<<>>, <<SPACE>>, W_audi, <<SPACE>> \o W_hose}

\* A parsed integer parameter: None for absent or not a number.
IntParams(lo, hi) == {None} \cup {Some(n) : n \in lo..hi}

LimitParams == IntParams(-1, MaxLimitParam) \cup {Some(MaxSearchLimit + 1)}
PageParams == IntParams(-1, MaxPage)

\* The years a request names: those of the catalog, and 0.
CatalogYears == {r.anio_desde : r \in Catalog} \cup {r.anio_hasta : r \in Catalog}
YearParams == {None, Some(0)} \cup {Some(y) : y \in CatalogYears}
AdvancedYearParams == {None} \cup {Some(y) : y \in CatalogYears}

\* The thresholds a basic search names, in hundredths: stricter and looser
\* than the index's own.
ThresholdParams == {Some(10), Some(50)}

\* An advanced search carries in-range pagination parameters.
AdvancedLimits == IntParams(1, MaxLimitParam)
AdvancedPages == IntParams(1, MaxPage)

\* The brand, condition and quality parameters of an advanced search.
AdvancedFilters ==
    { [brand |-> <<>>, condition |-> <<>>, quality |-> <<>>],
      [brand |-> W_fiat, condition |-> <<>>, quality |-> <<>>],
      [brand |-> <<>>, condition |-> W_new, quality |-> W_oem] }
ProductIds == 1..(MaxRecords + 1)

\* ---------------------------------------------------------------- actions
NoRequest == [endpoint |-> "none"]
NoResponse == [status |-> 0, body |-> [success |-> FALSE, message |-> ""]]
NoSlice == [bounds |-> <<>>, candidates |-> <<>>]
NoCrawl == [active |-> FALSE, ok |-> FALSE, query |-> <<>>, limit |-> 0,
            totalPages |-> 0, results |-> <<>>]

Clients == 1..MaxClients

Init ==
    /\ dataFile \in DataFiles
    /\ inventory = <<>>
    /\ fuse = None
    /\ isInitialized = FALSE
    /\ req = NoRequest
    /\ res = NoResponse
    /\ fuseCalls = <<>>
    /\ sliced = NoSlice
    /\ crawl = NoCrawl
    /\ pc = [c \in Clients |-> "idle"]
    /\ loads = 0
    /\ seen = [c \in Clients |-> None]
    /\ memo = None

\* No request is being answered.
Idle == req = NoRequest

\* An initialize() that marks the service initialized before it reads the
\* file.
InitializeMarkingFirst ==
    /\ IF dataFile.exists
       THEN /\ inventory' = dataFile.content
            /\ fuse' = Some(NewFuse(dataFile.content))
       ELSE UNCHANGED <<inventory, fuse>>
    /\ isInitialized' = TRUE
    /\ Idle
    /\ UNCHANGED <<dataFile, requestVars, clientVars, memo>>

\* SearchService.initialize: reads the file, builds the index. A missing file
\* throws before anything is assigned.
Initialize ==
    /\ IF dataFile.exists
       THEN /\ inventory' = dataFile.content
            /\ fuse' = Some(NewFuse(dataFile.content))
            /\ isInitialized' = TRUE
       ELSE UNCHANGED <<inventory, fuse, isInitialized>>
    /\ Idle
    /\ UNCHANGED <<dataFile, requestVars, clientVars, memo>>

\* A search that does not wait for initialize(): before the load, the index
\* is one over no records.
CurFuseBeforeLoad == IF isInitialized THEN fuse[1] ELSE NewFuse(<<>>)

\* The inventory and the index a service method works on: it initializes
\* the service first when it is not initialized.
CurDocs == IF isInitialized THEN inventory ELSE dataFile.content
CurFuse == IF isInitialized THEN fuse[1] ELSE NewFuse(dataFile.content)

\* A handler answers request r with outcome out. A handler that calls the
\* service on an uninitialized service runs initialize() first; when that
\* throws, the error handler answers.
\* store is this.inventory as the service call leaves it.
Serve(r, out, store) ==
    LET throws == out.invoked /\ ~isInitialized /\ ~dataFile.exists
    IN /\ Idle
       /\ req' = r
       /\ IF out.invoked /\ ~isInitialized /\ dataFile.exists
          THEN /\ fuse' = Some(NewFuse(dataFile.content))
               /\ isInitialized' = TRUE
          ELSE UNCHANGED <<fuse, isInitialized>>
       /\ inventory' = IF out.invoked /\ ~throws THEN store ELSE inventory
       /\ res' = IF throws THEN ErrorResponse
                 ELSE [status |-> out.status, body |-> out.body]
       /\ fuseCalls' = IF throws THEN <<>> ELSE out.calls
       /\ sliced' = IF throws THEN NoSlice
                    ELSE [bounds |-> out.slice, candidates |-> out.candidates]
       /\ UNCHANGED <<dataFile, clientVars, memo>>

\* The searches and the lookup read this.inventory and the index, and
\* build their results from copies of the records.
Answer(r, out) == Serve(r, out, CurDocs)

Respond(r, out) == Answer(r, out) /\ UNCHANGED crawl

SearchReq(q, limit, page, threshold) ==
    Respond([endpoint |-> "search", q |-> q, limit |-> limit, page |-> page,
             threshold |-> threshold],
            CtlSearch(CurFuse, q, limit, page, threshold))

SearchByBrandReq(brand, limit, page) ==
    Respond([endpoint |-> "brand", q |-> brand, limit |-> limit, page |-> page],
            CtlSearchByBrand(CurFuse, brand, limit, page))

SearchByDescriptionReq(description, limit, page) ==
    Respond([endpoint |-> "description", q |-> description,
             limit |-> limit, page |-> page],
            CtlSearchByDescription(CurFuse, description, limit, page))

AdvancedSearchReq(q, brand, condition, quality, yearFrom, yearTo, limit, page) ==
    Respond([endpoint |-> "advanced", q |-> q, brand |-> brand,
             condition |-> condition, quality |-> quality,
             yearFrom |-> yearFrom, yearTo |-> yearTo,
             limit |-> limit, page |-> page],
            CtlAdvancedSearch(CurFuse, q, brand, condition, quality,
                              yearFrom, yearTo, limit, page))

SearchWithYearRangeReq(q, year, limit, page) ==
    Respond([endpoint |-> "year-range", q |-> q, year |-> year,
             limit |-> limit, page |-> page],
            CtlSearchWithYearRange(CurFuse, q, year, limit, page))

GetItemByIdReq(productId) ==
    Respond([endpoint |-> "item", productId |-> productId],
            CtlGetItemById(CurDocs, productId))

GetVehicleBrandsReq ==
    /\ Serve([endpoint |-> "vehicles"], CtlAggregate(GetVehicleBrands(CurDocs)),
             GetVehicleBrands(CurDocs).inventory)
    /\ UNCHANGED crawl

GetSearchStatsReq ==
    /\ Serve([endpoint |-> "stats"], CtlAggregate(GetSearchStats(CurDocs)),
             GetSearchStats(CurDocs).inventory)
    /\ UNCHANGED crawl

\* The results of pages p..totalPages of a basic search, concatenated.
RECURSIVE FetchPages(_, _, _, _, _)
FetchPages(index, q, limit, p, totalPages) ==
    IF p > totalPages THEN <<>>
    ELSE CtlSearch(index, q, Some(limit), Some(p), None).body.results
         \o FetchPages(index, q, limit, p + 1, totalPages)

\* A client pages through a basic search: it requests page 1, reads
\* totalPages from the response, and requests the pages up to totalPages.
Paginate(q, limit) ==
    /\ Answer([endpoint |-> "search", q |-> q, limit |-> Some(limit),
               page |-> Some(1), threshold |-> None],
              CtlSearch(CurFuse, q, Some(limit), Some(1), None))
    /\ crawl' = IF res'.status = 200
                THEN [active |-> TRUE, ok |-> TRUE, query |-> Trim(q), limit |-> limit,
                      totalPages |-> res'.body.totalPages,
                      results |-> FetchPages(CurFuse, q, limit, 1,
                                             res'.body.totalPages)]
                ELSE [NoCrawl EXCEPT !.active = TRUE]

\* The response has gone out: the server waits for the next request.
Sent ==
    /\ req # NoRequest
    /\ req' = NoRequest
    /\ res' = NoResponse
    /\ fuseCalls' = <<>>
    /\ sliced' = NoSlice
    /\ crawl' = NoCrawl
    /\ UNCHANGED <<dataFile, inventory, fuse, isInitialized, clientVars>>

Deliver == Sent /\ UNCHANGED memo

Next ==
    \/ Initialize
    \/ Idle /\ \E q \in Queries, limit \in LimitParams, page \in PageParams :
                  SearchReq(q, limit, page, None)
    \/ Idle /\ \E q \in Queries, threshold \in ThresholdParams :
                  SearchReq(q, None, None, threshold)
    \/ Idle /\ \E q \in Queries, limit \in LimitParams, page \in PageParams :
                  SearchByBrandReq(q, limit, page)
    \/ Idle /\ \E q \in Queries, limit \in LimitParams, page \in PageParams :
                  SearchByDescriptionReq(q, limit, page)
    \/ Idle /\ \E q \in {<<>>, <<SPACE>>, W_audi}, f \in AdvancedFilters,
                  yearFrom \in AdvancedYearParams, yearTo \in AdvancedYearParams,
                  limit \in AdvancedLimits, page \in AdvancedPages :
                  AdvancedSearchReq(q, f.brand, f.condition, f.quality,
                                    yearFrom, yearTo, limit, page)
    \/ Idle /\ \E q \in Queries, year \in YearParams,
                  limit \in LimitParams, page \in PageParams :
                  SearchWithYearRangeReq(q, year, limit, page)
    \/ Idle /\ \E productId \in ProductIds : GetItemByIdReq(productId)
    \/ Idle /\ GetVehicleBrandsReq
    \/ Idle /\ GetSearchStatsReq
    \/ Idle /\ \E q \in {W_audi, <<SPACE>> \o W_hose}, limit \in 1..MaxLimitParam :
                  Paginate(q, limit)
    \/ Deliver

Spec == Init /\ [][Next]_vars

\* ------------------------------------------------ a search sent again
\* A client keeps the request and the response of one basic search, and
\* notes whether the server has answered other requests since.
DeliverKeeping(remember) ==
    /\ Sent
    /\ memo' = IF remember /\ memo = None /\ req.endpoint = "search"
                  /\ res.status = 200
               THEN Some([req |-> req, body |-> res.body, between |-> FALSE])
               ELSE IF memo # None /\ req # memo[1].req
               THEN Some([memo[1] EXCEPT !.between = TRUE])
               ELSE memo

\* Basic searches with in-range pagination, the brand listing, statistics
\* and lookups, and calls of initialize(), in any order.
NextRepeat ==
    \/ Initialize
    \/ Idle /\ \E limit \in AdvancedLimits, page \in {None, Some(2)} :
                  SearchReq(W_audi, limit, page, None)
    \/ Idle /\ \E productId \in ProductIds : GetItemByIdReq(productId)
    \/ Idle /\ GetVehicleBrandsReq
    \/ Idle /\ GetSearchStatsReq
    \/ \E remember \in BOOLEAN : DeliverKeeping(remember)

SpecRepeat == Init /\ [][NextRepeat]_vars

\* ------------------------------------------- requests in flight at once
\* Node runs a handler until it awaits. The one await of a service method is
\* the one of initialize(), on fs.readFile: a request that finds the service
\* uninitialized starts the read and waits, and other requests run meanwhile.

\* What a service method reads once it is past its first lines.
StoreRead(docs, index) == [inventory |-> docs, fuse |-> index]

\* Request c reaches its service method: if (!this.isInitialized) await
\* this.initialize(). On an initialized service the method runs to its end.
Arrive(c) ==
    /\ pc[c] = "idle"
    /\ IF isInitialized
       THEN /\ pc' = [pc EXCEPT ![c] = "done"]
            /\ seen' = [seen EXCEPT ![c] = Some(StoreRead(inventory, fuse))]
       ELSE /\ pc' = [pc EXCEPT ![c] = "reading"]
            /\ UNCHANGED seen
    /\ UNCHANGED <<dataFile, inventory, fuse, isInitialized, loads, memo, requestVars>>

\* The readFile of request c's initialize() ends: initialize() installs the
\* inventory and the index and returns, and the method of c runs to its end;
\* or the read fails and the error leaves the method.
ReadFileDone(c) ==
    /\ pc[c] = "reading"
    /\ IF dataFile.exists
       THEN /\ inventory' = dataFile.content
            /\ fuse' = Some(NewFuse(dataFile.content))
            /\ isInitialized' = TRUE
            /\ loads' = loads + 1
            /\ seen' = [seen EXCEPT ![c] = Some(StoreRead(inventory', fuse'))]
            /\ pc' = [pc EXCEPT ![c] = "done"]
       ELSE /\ pc' = [pc EXCEPT ![c] = "failed"]
            /\ UNCHANGED <<inventory, fuse, isInitialized, loads, seen>>
    /\ UNCHANGED <<dataFile, memo, requestVars>>

\* The handler of request c answers: res.json(result) or next(error).
Finish(c) ==
    /\ pc[c] \in {"done", "failed"}
    /\ pc' = [pc EXCEPT ![c] = "idle"]
    /\ seen' = [seen EXCEPT ![c] = None]
    /\ UNCHANGED <<dataFile, inventory, fuse, isInitialized, loads, memo, requestVars>>

NextConcurrent ==
    \/ \E c \in Clients : Arrive(c)
    \/ \E c \in Clients : ReadFileDone(c)
    \/ \E c \in Clients : Finish(c)

SpecConcurrent == Init /\ [][NextConcurrent]_vars

\* ----------------------------------------------------------------- claims
SearchEndpoints == {"search", "brand", "description", "advanced", "year-range"}

\* The last request was a search and was answered with a success response.
Served(endpoints) == req.endpoint \in endpoints /\ res.status = 200

\* Every record of the store matching query, ranked, as a response shows them.
AllMatches(query) == FormatResults(Rank(query, inventory, FuseThreshold))

Elems(seq) == {seq[i] : i \in 1..Len(seq)}

\* The elements of seq at the 0-based indices [start, start + count).
Window(seq, start, count) ==
    [i \in 1..Max(0, Min(Len(seq), start + count) - start) |-> seq[start + i]]

\* C1: the pages 1..totalPages of a basic search with limit L >= 1,
\* concatenated, are the full ranked sequence of the matching records, each
\* record exactly once.
C1_PaginationRoundTrip ==
    (crawl.active /\ crawl.ok) => crawl.results = AllMatches(crawl.query)

\* C2: without year filtering, total is the number of all records matching
\* the query, whatever page and limit the request carries.
C2_TotalCountsAllMatches ==
    Served({"search", "brand", "description"})
        => res.body.total = Len(AllMatches(res.body.query))

\* C3: in a year-range search every record of the filtered set has
\* anio_desde <= year <= anio_hasta, every matching record outside the
\* filtered set does not, and total is the size of the filtered set.
C3_YearFilterCorrect ==
    Served({"year-range"}) =>
        /\ \A item \in Elems(sliced.candidates) : InYearRange(item, req.year[1])
        /\ \A item \in Elems(AllMatches(res.body.query)) \ Elems(sliced.candidates) :
              ~InYearRange(item, req.year[1])
        /\ res.body.total = Len(sliced.candidates)

\* C4: for page >= 1 and limit >= 1 the results are the candidates at the
\* indices [(page-1)*limit, (page-1)*limit + limit): of all ranked matches
\* in a basic search, of the year-filtered candidates in a year-range
\* search; a page beyond the last one is an empty success response.
C4_SliceBounds ==
    (Served({"search", "brand", "description", "year-range"})
        /\ res.body.page >= 1 /\ res.body.limit >= 1) =>
        LET start == (res.body.page - 1) * res.body.limit
            cands == IF req.endpoint = "year-range" THEN sliced.candidates
                     ELSE AllMatches(res.body.query)
        IN /\ res.body.results = Window(cands, start, res.body.limit)
           /\ start >= Len(cands) => (res.body.results = <<>> /\ res.body.success)

C4_Witness ==
    /\ Served({"search"})
    /\ res.body.page = 2 /\ res.body.limit = 1
    /\ Len(res.body.results) = 1
    /\ Len(AllMatches(res.body.query)) = 3

\* C5: every successful paginated response has totalPages = ceil(total /
\* limit) for its own total and limit, and totalPages = 0 when total = 0.
C5_TotalPagesFormula ==
    Served(SearchEndpoints) =>
        /\ res.body.totalPages = CeilDiv(res.body.total, res.body.limit)
        /\ res.body.total = 0 => res.body.totalPages = 0

\* C6: the limit is clamped to the maximum before the ranker is called and
\* before the slice: the reported limit is min(requested limit, maxLimit),
\* the ranker's cap is computed from it, and no more results are returned.
C6_LimitClamped ==
    (Served(SearchEndpoints) /\ req.limit # None) =>
        /\ res.body.limit = Min(req.limit[1], MaxSearchLimit)
        /\ Len(res.body.results) <= res.body.limit
        /\ \A i \in 1..Len(fuseCalls) :
              fuseCalls[i].limit =
                  res.body.limit * res.body.page
                      * (IF req.endpoint = "year-range" THEN 2 ELSE 1)

\* C7: whatever limit and page a request carries, a successful response
\* reports page >= 1 and limit >= 1, and the slice bounds are not negative.
C7_PaginationInputValid ==
    Served(SearchEndpoints) =>
        /\ res.body.page >= 1
        /\ res.body.limit >= 1
        /\ \A i \in 1..Len(sliced.bounds) : sliced.bounds[i] >= 0

\* The query string a search request amounts to.
EffectiveQuery ==
    IF req.endpoint = "advanced"
    THEN SearchQuery(req.q, req.brand, req.condition, req.quality)
    ELSE req.q

\* C8: on every search endpoint a query that is empty after trimming is
\* answered 400, and the ranker is never called with an empty query (stated
\* for a service whose data file is there to load).
C8_EmptyQueryRejected ==
    /\ (req.endpoint \in SearchEndpoints /\ Trim(EffectiveQuery) = <<>>
           /\ dataFile.exists)
           => (res.status = 400 /\ fuseCalls = <<>>)
    /\ \A i \in 1..Len(fuseCalls) : fuseCalls[i].query # <<>>

\* C9: a lookup by product id answers 200 with a record of exactly that id
\* when the store holds one, and otherwise 404 with success false and the
\* message 'Item not found'.
C9_LookupById ==
    (req.endpoint = "item" /\ isInitialized) =>
        IF \E i \in 1..Len(inventory) : inventory[i].producto_id = req.productId
        THEN /\ res.status = 200
             /\ res.body.success
             /\ res.body.data.producto_id = req.productId
             /\ res.body.data \in Elems(inventory)
        ELSE /\ res.status = 404
             /\ ~res.body.success
             /\ res.body.message = "Item not found"

C9_Witness ==
    /\ req.endpoint = "item" /\ isInitialized
    /\ req.productId = 2
    /\ res.status = 200
    /\ res.body.data.producto_id = 2

\* C10: every record a search by brand returns matches the query in its
\* marca_vehiculo field.
C10_BrandSearchOnlyBrand ==
    Served({"brand"}) =>
        \A item \in Elems(res.body.results) :
            Match(res.body.query, item.marca_vehiculo, FuseThreshold) # None

\* The identifiers of the records in a sequence of results.
Ids(results) == {results[i].producto_id : i \in 1..Len(results)}

\* The threshold a basic search request asks for: 0.3 when it names none.
RequestedThreshold ==
    IF req.threshold = None THEN FuseThreshold ELSE req.threshold[1]

\* C11: a basic search is matched with the threshold its request carries
\* (0.3 when it carries none): every record it ranks matches the query at
\* that threshold, so that a lower threshold never ranks a record a higher
\* one leaves out.
C11_ThresholdApplied ==
    Served({"search"}) =>
        Ids(sliced.candidates)
            \subseteq Ids(FormatResults(Rank(res.body.query, inventory,
                                             RequestedThreshold)))

\* C12: under any interleaving of requests reaching an uninitialized
\* service, initialize() reads and installs the data at most once, and a
\* request that ran its service method read the loaded inventory and the
\* index built from it.
C12_LoadedOnce ==
    /\ loads <= 1
    /\ \A c \in Clients :
          pc[c] = "done" =>
              /\ isInitialized
              /\ seen[c] = Some(StoreRead(dataFile.content,
                                          Some(NewFuse(dataFile.content))))

\* C13: once the service is initialized, whatever requests have been served
\* since, the inventory is the sequence of records that was loaded: the
\* same records, field values and order.
C13_StoreUnchanged == isInitialized => inventory = dataFile.content

C13_Witness ==
    /\ isInitialized
    /\ Served({"vehicles"})
    /\ Len(inventory) = 3
    /\ inventory[1].marca_vehiculo = W_fiat
    /\ inventory[3].marca_vehiculo = W_Audi
    /\ res.body.data.brands[1] = W_Audi

\* C14: a basic search sent again, with the same query, page and limit,
\* over the same record store, is answered with the same results, total,
\* page, limit and totalPages as the first time, whatever requests were
\* served in between.
C14_Deterministic ==
    (memo # None /\ req = memo[1].req) =>
        (res.status = 200 /\ res.body = memo[1].body)

C14_Witness ==
    /\ memo # None
    /\ memo[1].between
    /\ req = memo[1].req
    /\ res.body.page = 2
    /\ res.body.limit = 1
    /\ Len(res.body.results) = 1

\* A is ranked before B: a smaller score, or the same score and an earlier
\* place in the record store (a record's producto_id is its place there).
RankedBefore(a, b) ==
    \/ a.score < b.score
    \/ a.score = b.score /\ a.producto_id < b.producto_id

\* C15: in the results of every search page, with or without the year
\* filter, a record A comes before a record B exactly when A's score is
\* smaller, or the scores are equal and A comes first in the record store.
C15_ScoreOrdering ==
    Served(SearchEndpoints) =>
        \A i, j \in 1..Len(res.body.results) :
            i < j <=> RankedBefore(res.body.results[i], res.body.results[j])

C15_Witness ==
    /\ Served({"year-range"})
    /\ res.body.yearFiltered
    /\ Len(res.body.results) = 3
    /\ res.body.results[1].score = res.body.results[2].score
    /\ res.body.results[2].score < res.body.results[3].score
    /\ res.body.results[3].producto_id = 1

\* The values of a field that occur in the record store.
StoreValues(field) == {inventory[i][field] : i \in 1..Len(inventory)}

\* list holds exactly the values of field in the store, each once, ascending.
ListsValues(list, field) ==
    /\ Elems(list) = StoreValues(field)
    /\ \A i \in 1..(Len(list) - 1) : StrLess(list[i], list[i + 1])

\* C16: the brand list of getVehicleBrands, and the brands, conditions and
\* qualities lists of getSearchStats, hold each distinct value of the store
\* exactly once, in sorted order, and nothing else; total and uniqueBrands
\* are the length of the brand list and totalItems is the number of records.
C16_Aggregation ==
    /\ Served({"vehicles"}) =>
          /\ ListsValues(res.body.data.brands, "marca_vehiculo")
          /\ res.body.data.total = Len(res.body.data.brands)
    /\ Served({"stats"}) =>
          /\ ListsValues(res.body.data.brands, "marca_vehiculo")
          /\ ListsValues(res.body.data.conditions, "condicion")
          /\ ListsValues(res.body.data.qualities, "calidad_repuesto")
          /\ res.body.data.uniqueBrands = Len(res.body.data.brands)
          /\ res.body.data.totalItems = Len(inventory)

C16_Witness ==
    /\ Served({"stats"})
    /\ res.body.data.totalItems = 3
    /\ res.body.data.uniqueBrands = 2
    /\ inventory[1].marca_vehiculo = W_fiat
    /\ inventory[2].marca_vehiculo = W_fiat
    /\ res.body.data.brands = <<W_Audi, W_fiat>>
    /\ res.body.data.conditions = <<W_new, W_oem>>

\* Every record of the store matching the query of an advanced search whose
\* anio_desde is within the year bounds the request gives, ranked.
AdvancedMatches ==
    SelectSeq(AllMatches(res.body.query),
              LAMBDA item : AdvancedKeeps(item, req.yearFrom, req.yearTo))

\* C17: an advanced search with yearFrom and/or yearTo returns only items
\* with yearFrom <= anio_desde <= yearTo (for the bounds given), its page is
\* the page's window of all matching items within the bounds, so that none
\* is left out across the pages, and total is the number of those items.
C17_AdvancedYearBounds ==
    (Served({"advanced"}) /\ (req.yearFrom # None \/ req.yearTo # None)) =>
        /\ \A item \in Elems(res.body.results) :
              AdvancedKeeps(item, req.yearFrom, req.yearTo)
        /\ res.body.results =
              Window(AdvancedMatches, (res.body.page - 1) * res.body.limit,
                     res.body.limit)
        /\ res.body.total = Len(AdvancedMatches)

\* The endpoints whose handlers call the service whatever their parameters.
ServiceEndpoints == {"item", "vehicles", "stats"}

\* C18: in every reachable state isInitialized holds only with an index
\* that was built from the current inventory; when initialize() fails (the
\* data file is missing) the error reaches the caller, which answers with
\* the error handler's response, isInitialized stays false, and no request
\* is answered with success from a service that has no index.
C18_InitConsistent ==
    /\ isInitialized => (fuse # None /\ fuse = Some(NewFuse(inventory)))
    /\ (~dataFile.exists /\ req.endpoint \in ServiceEndpoints) =>
          (res = ErrorResponse /\ ~isInitialized /\ fuse = None)
    /\ (~dataFile.exists /\ req.endpoint \in SearchEndpoints) =>
          (res = ErrorResponse \/ res.status = 400)
    /\ res.status = 200 => isInitialized

C18_Witness ==
    /\ ~dataFile.exists
    /\ req.endpoint = "search"
    /\ res = ErrorResponse
    /\ ~isInitialized

====
